---- MODULE Spec2Model ----
(***************************************************************************)
(* Model of the settlement-matching measurement harness                    *)
(* (generate_and_assert.py, benchmark.py).                                 *)
(*                                                                         *)
(* Time is counted in ticks of 0.1 s on the harness's nominal clock:       *)
(* time.sleep(0.2) advances it by PollInterval, proc.wait(timeout=5) by at *)
(* most Grace, and every other statement takes no time.                    *)
(***************************************************************************)
EXTENDS Integers, Sequences, FiniteSets, TLC

\* ---------------------------------------------------------------- bounds
\* Largest timeout_sec (in ticks) passed to the orchestrator.
MaxTimeout == 3
\* Lines of every generated feed file.
FeedLines == 2
\* Most runs of generate_and_assert.py in a row.
MaxRuns == 2
\* Largest config.warmup_iterations and config.measurement_iterations.
MaxWarmup == 1
MaxMeasure == 2
\* Largest n_trades, n_unmatches and n_duplicates given to generate_dataset.
MaxTrades == 2
MaxUnmatches == 1
MaxDuplicates == 3
\* Largest config.num_status_events, and the most lines of a generated dataset,
\* both feeds together.
MaxEvents == 4
MaxFeed == 5
\* Generation calls in one process, and the most lines of a dataset generated
\* repeatedly.
MaxCalls == 2
MaxRepeatFeed == 3
\* Most pairs of a metrics line, the engine's full line apart.
MaxPairs == 2
\* Most persisted results a report is made of.
MaxResults == 2
\* Most lines the status log holds in the model.
MaxStatusLen == 2
\* Largest component of an expected triple.
MaxCount == 1

\* ------------------------------------------------------ program constants
\* time.sleep(0.2), in ticks.
PollInterval == 2
\* proc.wait(timeout=5), in ticks.
Grace == 50

VARIABLES
    pc,          \* position of the harness
    now,         \* the clock, time.time(), in ticks
    start,       \* start = time.time()
    timeout_sec, \* the timeout_sec argument, in ticks
    expected,    \* the expected argument: <<matches, unmatches, duplicates>>
    status,      \* runtime/status.txt: [exists, lines]
    child,       \* the process of subprocess.Popen: "none", "running", "exited"
    sigterm,     \* SIGTERM was sent to the child
    sigkill,     \* SIGKILL was sent to the child
    result,      \* the triple the call returns
    outcome,     \* how the call ended: "none", "satisfied", "timeout", "raised"
    polls,       \* number of reads of the status artifact
    sleeps,      \* number of time.sleep(0.2) calls
    seen,        \* the counts of every read, in order
    finalRead,   \* the read after the loop (lines 91-96) was performed
    exc,         \* the exception the harness raised, "none" if none
    bank,        \* runtime/bank.txt: [exists, gen, len]
    market,      \* runtime/market.txt: [exists, gen, len]
    run,         \* number of datasets generated so far
    orphan,      \* a child of an earlier harness process is still running
    exitCode,    \* exit status of generate_and_assert.main, -1 while it runs
    warmup_iterations,      \* config.warmup_iterations
    measurement_iterations, \* config.measurement_iterations
    iter,        \* iterations of run_benchmark completed so far
    metrics,     \* the metrics list of run_benchmark
    caller,      \* who called write_files: "none", "main", "bench"
    gpc,         \* position of generate_dataset and of the stub engine after it
    n_trades,    \* arguments of generate_dataset
    n_unmatches,
    n_duplicates,
    trades,      \* the list of Trade records
    bank_lines,  \* the obligation feed lines
    market_lines,\* the market-event feed lines
    dup_indices, \* the indices random.sample drew
    shuf,        \* index the running shuffle is at
    gexpected,   \* the expected triple generate_dataset returns
    consumed,    \* market lines the stub engine has consumed
    seenKeys,    \* (msgId, seq) pairs the stub engine has received
    matched,     \* obligations the stub engine has moved to Matched
    num_status_events, \* config.num_status_events of BenchmarkRunner._generate_dataset
    msg_seq,     \* its msg_seq: the last sequence number of each obligation's message id
    add_i,       \* its loop variable i over range(additional_events)
    gexc,        \* the exception a generator raised, "none" if none
    calls,       \* generation calls completed since random.seed
    first,       \* the lines the first of them returned
    stdout,      \* the engine's standard output, a sequence of lines
    ppc,         \* position of _parse_kotlin_metrics
    line_i,      \* the line of stdout its outer loop is at
    pair_i,      \* the pair of the metrics line its inner loop is at
    profiling_data, \* its profiling_data
    results,     \* the persisted results analyze_benchmarks is given
    apc,         \* which report of analyze_benchmarks was asked for, and its end
    aexc,        \* the exception the report raised, "none" if none
    saved,       \* the metrics lists _save_results has written, in order
    printed      \* what main printed at line 161: <<expected, got>>, <<>> if nothing

\* The dataset generator and the stub engine fed with its output.
genCore == <<gpc, n_trades, n_unmatches, n_duplicates, trades, bank_lines,
             market_lines, dup_indices, shuf, gexpected, consumed, seenKeys, matched>>

\* BenchmarkRunner._generate_dataset and the random source of the process.
data == <<num_status_events, msg_seq, add_i, gexc, calls, first>>

\* _parse_kotlin_metrics.
parse == <<stdout, ppc, line_i, pair_i, profiling_data>>

\* analyze_benchmarks.
analysis == <<results, apc, aexc>>

ext == <<data, parse, analysis, saved, printed>>

gen == <<genCore, ext>>

\* What run_kotlin_runner_and_wait never touches.
outer == <<bank, market, run, orphan, exitCode,
           warmup_iterations, measurement_iterations, iter, metrics, caller, gen>>

vars == <<pc, now, start, timeout_sec, expected, status, child, sigterm, sigkill,
          result, outcome, polls, sleeps, seen, finalRead, exc, outer>>

\* ------------------------------------------------------------ status lines
\* A status line, as far as the scan of lines 84-86 can tell lines apart:
\* what it starts with, and whether "to=Matched" occurs in it.
StatusLines ==
    { [prefix |-> "StateChanged(",     toMatched |-> TRUE],
      [prefix |-> "StateChanged(",     toMatched |-> FALSE],
      [prefix |-> "NoMatch(",          toMatched |-> FALSE],
      [prefix |-> "DuplicateIgnored(", toMatched |-> FALSE],
      [prefix |-> "Other",             toMatched |-> TRUE] }

SeqsUpTo(S, n) == UNION { [1..k -> S] : k \in 0..n }

\* line.startswith("StateChanged(") and "to=Matched" in line
IsMatched(line) == line.prefix = "StateChanged(" /\ line.toMatched
\* line.startswith("NoMatch(")
IsNoMatch(line) == line.prefix = "NoMatch("
\* line.startswith("DuplicateIgnored(")
IsDuplicate(line) == line.prefix = "DuplicateIgnored("

\* (matches, unmatches, duplicates) of a text, lines 84-86
Counts(text) ==
    << Cardinality({ i \in DOMAIN text : IsMatched(text[i]) }),
       Cardinality({ i \in DOMAIN text : IsNoMatch(text[i]) }),
       Cardinality({ i \in DOMAIN text : IsDuplicate(text[i]) }) >>

Zeros == <<0, 0, 0>>
Triples == (0..MaxCount) \X (0..MaxCount) \X (0..MaxCount)
Leq3(a, b) == a[1] <= b[1] /\ a[2] <= b[2] /\ a[3] <= b[3]
Last(s) == s[Len(s)]
CeilDiv(a, b) == (a + b - 1) \div b

Absent == [exists |-> FALSE, lines |-> <<>>]
File(text) == [exists |-> TRUE, lines |-> text]

\* A feed file holding the first len lines of the dataset generated as number gen.
NoFeed == [exists |-> FALSE, gen |-> 0, len |-> 0]
Feed(g, n) == [exists |-> TRUE, gen |-> g, len |-> n]

\* No benchmark dataset, no engine output to parse, no report, nothing saved.
DataIdle ==
    /\ num_status_events = 0
    /\ msg_seq = <<>>
    /\ add_i = 0
    /\ gexc = "none"
    /\ calls = 0
    /\ first = <<>>

\* benchmark.py lines 234-239: profiling_data before any pair is parsed. Floats are
\* counted in tenths.
Defaults == [memory_mb |-> 0, gc_time_ms |-> 0, cpu_time_ms |-> 0, peak_entities |-> 0]

ParseIdle ==
    /\ stdout = <<>>
    /\ ppc = "idle"
    /\ line_i = 0
    /\ pair_i = 0
    /\ profiling_data = Defaults

AnalysisIdle ==
    /\ results = <<>>
    /\ apc = "idle"
    /\ aexc = "none"

ExtIdle ==
    /\ DataIdle
    /\ ParseIdle
    /\ AnalysisIdle
    /\ saved = <<>>
    /\ printed = <<>>

\* The generator's variables while no dataset is generated.
GenCoreIdle ==
    /\ gpc = "idle"
    /\ n_trades = 0
    /\ n_unmatches = 0
    /\ n_duplicates = 0
    /\ trades = <<>>
    /\ bank_lines = <<>>
    /\ market_lines = <<>>
    /\ dup_indices = <<>>
    /\ shuf = 0
    /\ gexpected = Zeros
    /\ consumed = 0
    /\ seenKeys = {}
    /\ matched = {}

GenIdle == GenCoreIdle /\ ExtIdle

\* The variables of the callers, while only the orchestrator is looked at.
OuterIdle ==
    /\ bank = NoFeed
    /\ market = NoFeed
    /\ run = 0
    /\ orphan = FALSE
    /\ exitCode = -1
    /\ warmup_iterations = 0
    /\ measurement_iterations = 0
    /\ iter = 0
    /\ metrics = <<>>
    /\ caller = "none"
    /\ GenIdle

\* --------------------------------------------- run_kotlin_runner_and_wait
\* State at the call, the expected triple being one of E: any timeout, any status
\* artifact.
InitCall(E) ==
    /\ pc = "spawn"
    /\ now = 0
    /\ start = 0
    /\ timeout_sec \in 0..MaxTimeout
    /\ expected \in E
    /\ status \in {Absent} \cup { File(t) : t \in SeqsUpTo(StatusLines, MaxStatusLen) }
    /\ child = "none"
    /\ sigterm = FALSE
    /\ sigkill = FALSE
    /\ result = Zeros
    /\ outcome = "none"
    /\ polls = 0
    /\ sleeps = 0
    /\ seen = <<>>
    /\ finalRead = FALSE
    /\ exc = "none"
    /\ OuterIdle

\* Any expected triple.
Init == InitCall(Triples)

\* Lines 76-80: the engine is spawned and the clock is read.
Popen ==
    /\ pc = "spawn"
    /\ child' = "running"
    /\ start' = now
    /\ pc' = "loop"
    /\ UNCHANGED <<now, timeout_sec, expected, status, sigterm, sigkill, result,
                   outcome, polls, sleeps, seen, finalRead>>
    /\ UNCHANGED <<exc, outer>>

\* Line 76 raising: the child could not be started; nothing is left to clean up.
PopenFails ==
    /\ pc = "spawn"
    /\ outcome' = "raised"
    /\ pc' = "done"
    /\ UNCHANGED <<now, start, timeout_sec, expected, status, child, sigterm, sigkill,
                   result, polls, sleeps, seen, finalRead>>
    /\ exc' = "OSError"
    /\ UNCHANGED outer

\* Poll without the return of line 88: a satisfied poll goes on to sleep.
Poll_NoReturn ==
    /\ pc = "loop"
    /\ now - start < timeout_sec
    /\ IF status.exists
       THEN /\ polls' = polls + 1
            /\ seen' = Append(seen, Counts(status.lines))
       ELSE UNCHANGED <<polls, seen>>
    /\ pc' = "sleep"
    /\ UNCHANGED <<now, start, timeout_sec, expected, status, child, sigterm, sigkill,
                   result, outcome, sleeps, finalRead>>
    /\ UNCHANGED <<exc, outer>>

\* Poll with the loop condition of line 81 written <= instead of <.
Poll_Inclusive ==
    /\ pc = "loop"
    /\ now - start <= timeout_sec
    /\ IF status.exists
       THEN /\ polls' = polls + 1
            /\ seen' = Append(seen, Counts(status.lines))
            /\ IF Counts(status.lines) = expected
               THEN /\ result' = Counts(status.lines)
                    /\ outcome' = "satisfied"
                    /\ pc' = "finally"
               ELSE /\ pc' = "sleep"
                    /\ UNCHANGED <<result, outcome>>
       ELSE /\ pc' = "sleep"
            /\ UNCHANGED <<polls, seen, result, outcome>>
    /\ UNCHANGED <<now, start, timeout_sec, expected, status, child, sigterm, sigkill,
                   sleeps, finalRead>>
    /\ UNCHANGED <<exc, outer>>

\* Lines 81-88: one pass of the loop body up to the sleep.
Poll ==
    /\ pc = "loop"
    /\ now - start < timeout_sec
    /\ IF status.exists
       THEN /\ polls' = polls + 1
            /\ seen' = Append(seen, Counts(status.lines))
            /\ IF Counts(status.lines) = expected
               THEN /\ result' = Counts(status.lines)
                    /\ outcome' = "satisfied"
                    /\ pc' = "finally"
               ELSE /\ pc' = "sleep"
                    /\ UNCHANGED <<result, outcome>>
       ELSE /\ pc' = "sleep"
            /\ UNCHANGED <<polls, seen, result, outcome>>
    /\ UNCHANGED <<now, start, timeout_sec, expected, status, child, sigterm, sigkill,
                   sleeps, finalRead>>
    /\ UNCHANGED <<exc, outer>>

\* Line 83 raising (the text cannot be read or decoded): the finally block runs.
PollRaises ==
    /\ pc = "loop"
    /\ now - start < timeout_sec
    /\ status.exists
    /\ outcome' = "raised"
    /\ pc' = "finally"
    /\ UNCHANGED <<now, start, timeout_sec, expected, status, child, sigterm, sigkill,
                   result, polls, sleeps, seen, finalRead>>
    /\ exc' = "ReadError"
    /\ UNCHANGED outer

\* Line 89.
Sleep ==
    /\ pc = "sleep"
    /\ now' = now + PollInterval
    /\ sleeps' = sleeps + 1
    /\ pc' = "loop"
    /\ UNCHANGED <<start, timeout_sec, expected, status, child, sigterm, sigkill,
                   result, outcome, polls, seen, finalRead>>
    /\ UNCHANGED <<exc, outer>>

\* TimedOut without the read of lines 91-95: the counts of the last poll are returned.
TimedOut_Stale ==
    /\ pc = "loop"
    /\ ~(now - start < timeout_sec)
    /\ IF status.exists
       THEN /\ polls' = polls + 1
            /\ seen' = Append(seen, Counts(status.lines))
            /\ finalRead' = TRUE
            /\ result' = IF seen = <<>> THEN Zeros ELSE Last(seen)
       ELSE /\ result' = Zeros
            /\ UNCHANGED <<polls, seen, finalRead>>
    /\ outcome' = "timeout"
    /\ pc' = "finally"
    /\ UNCHANGED <<now, start, timeout_sec, expected, status, child, sigterm, sigkill,
                   sleeps>>
    /\ UNCHANGED <<exc, outer>>

\* Lines 81, 90-97: the loop condition fails; whatever is there is returned.
TimedOut ==
    /\ pc = "loop"
    /\ ~(now - start < timeout_sec)
    /\ IF status.exists
       THEN /\ polls' = polls + 1
            /\ seen' = Append(seen, Counts(status.lines))
            /\ finalRead' = TRUE
            /\ result' = Counts(status.lines)
       ELSE /\ result' = Zeros
            /\ UNCHANGED <<polls, seen, finalRead>>
    /\ outcome' = "timeout"
    /\ pc' = "finally"
    /\ UNCHANGED <<now, start, timeout_sec, expected, status, child, sigterm, sigkill,
                   sleeps>>
    /\ UNCHANGED <<exc, outer>>

\* Line 100: proc.terminate() signals a child that has not been reaped.
Terminate ==
    /\ pc = "finally"
    /\ sigterm' = (child = "running")
    /\ pc' = "wait"
    /\ UNCHANGED <<now, start, timeout_sec, expected, status, child, sigkill, result,
                   outcome, polls, sleeps, seen, finalRead>>
    /\ UNCHANGED <<exc, outer>>

\* How long proc.wait(timeout=5) may take when the child exits in time: no time,
\* one tick, the whole grace period.
WaitTimes == {0, 1, Grace}

\* Line 101: proc.wait(timeout=5) returns once the child has exited.
WaitReturns ==
    /\ pc = "wait"
    /\ child = "exited"
    /\ \E d \in WaitTimes : now' = now + d
    /\ pc' = "done"
    /\ UNCHANGED <<start, timeout_sec, expected, status, child, sigterm, sigkill,
                   result, outcome, polls, sleeps, seen, finalRead>>
    /\ UNCHANGED <<exc, outer>>

\* Lines 101-102: the child is still there after the grace period.
WaitExpires ==
    /\ pc = "wait"
    /\ child = "running"
    /\ now' = now + Grace
    /\ pc' = "kill"
    /\ UNCHANGED <<start, timeout_sec, expected, status, child, sigterm, sigkill,
                   result, outcome, polls, sleeps, seen, finalRead>>
    /\ UNCHANGED <<exc, outer>>

\* Lines 103-104: proc.kill() sends SIGKILL and does not wait for the child.
Kill ==
    /\ pc = "kill"
    /\ sigkill' = (child = "running")
    /\ pc' = "done"
    /\ UNCHANGED <<now, start, timeout_sec, expected, status, child, sigterm, result,
                   outcome, polls, sleeps, seen, finalRead>>
    /\ UNCHANGED <<exc, outer>>

\* ------------------------------------------------------------- the engine
\* The engine appends one line to its status log, creating it when missing.
EngineAppend ==
    /\ child = "running"
    /\ Len(status.lines) < MaxStatusLen
    /\ \E l \in StatusLines : status' = File(Append(status.lines, l))
    /\ UNCHANGED <<pc, now, start, timeout_sec, expected, child, sigterm, sigkill,
                   result, outcome, polls, sleeps, seen, finalRead>>
    /\ UNCHANGED <<exc, outer>>

\* The engine process ends: by itself, on SIGTERM, or when SIGKILL is delivered.
EngineExits ==
    /\ child = "running"
    /\ child' = "exited"
    /\ UNCHANGED <<pc, now, start, timeout_sec, expected, status, sigterm, sigkill,
                   result, outcome, polls, sleeps, seen, finalRead>>
    /\ UNCHANGED <<exc, outer>>

Next ==
    \/ Popen
    \/ PopenFails
    \/ Poll
    \/ PollRaises
    \/ Sleep
    \/ TimedOut
    \/ Terminate
    \/ WaitReturns
    \/ WaitExpires
    \/ Kill
    \/ EngineAppend
    \/ EngineExits

Spec == Init /\ [][Next]_vars

\* The statements of the harness, as opposed to those of the engine.
Harness ==
    \/ Popen
    \/ Poll
    \/ Sleep
    \/ TimedOut
    \/ Terminate
    \/ WaitReturns
    \/ WaitExpires
    \/ Kill

\* A call whose expected triple no status log of the model satisfies: it asks for
\* more lines than the log can hold.
InitUnsatisfied == InitCall({<<MaxStatusLen + 1, 0, 0>>})

\* The harness is a running process: its next statement is eventually executed.
FairSpec == InitUnsatisfied /\ [][Next]_vars /\ WF_vars(Harness)

\* ------------------------------------------------------------ write_files
\* The locals of run_kotlin_runner_and_wait and the process handle.
call == <<start, timeout_sec, expected, child, sigterm, sigkill, result, outcome,
          polls, sleeps, seen, finalRead, exc>>
bench == <<warmup_iterations, measurement_iterations, iter, metrics>>
\* What the dataset generator never touches.
harness == <<pc, now, status, call, bank, market, run, orphan, exitCode, caller, bench>>

\* Lines 63-65, p = BANK.
UnlinkBank ==
    /\ pc = "wf_unlink_bank"
    /\ bank' = NoFeed
    /\ pc' = "wf_unlink_market"
    /\ UNCHANGED <<now, status, market, run, orphan, exitCode, caller, call, bench>>
    /\ UNCHANGED gen

\* Lines 63-65, p = MARKET.
UnlinkMarket ==
    /\ pc = "wf_unlink_market"
    /\ market' = NoFeed
    /\ pc' = "wf_unlink_status"
    /\ UNCHANGED <<now, status, bank, run, orphan, exitCode, caller, call, bench>>
    /\ UNCHANGED gen

\* Lines 63-65, p = STATUS.
UnlinkStatus ==
    /\ pc = "wf_unlink_status"
    /\ status' = Absent
    /\ pc' = "wf_bank_open"
    /\ UNCHANGED <<now, bank, market, run, orphan, exitCode, caller, call, bench>>
    /\ UNCHANGED gen

\* Line 66, the open of write_text: the file is created empty.
BankOpen ==
    /\ pc = "wf_bank_open"
    /\ bank' = Feed(run, 0)
    /\ pc' = IF FeedLines = 0 THEN "wf_market_open" ELSE "wf_bank_write"
    /\ UNCHANGED <<now, status, market, run, orphan, exitCode, caller, call, bench>>
    /\ UNCHANGED gen

\* Line 66, the writes of write_text: some more of the text reaches the file.
BankWrite ==
    /\ pc = "wf_bank_write"
    /\ \E k \in (bank.len + 1)..FeedLines :
          /\ bank' = Feed(run, k)
          /\ pc' = IF k = FeedLines THEN "wf_market_open" ELSE "wf_bank_write"
    /\ UNCHANGED <<now, status, market, run, orphan, exitCode, caller, call, bench>>
    /\ UNCHANGED gen

\* Line 67, the open of write_text.
MarketOpen ==
    /\ pc = "wf_market_open"
    /\ market' = Feed(run, 0)
    /\ pc' = IF FeedLines = 0 THEN "wf_touch" ELSE "wf_market_write"
    /\ UNCHANGED <<now, status, bank, run, orphan, exitCode, caller, call, bench>>
    /\ UNCHANGED gen

\* Line 67, the writes of write_text.
MarketWrite ==
    /\ pc = "wf_market_write"
    /\ \E k \in (market.len + 1)..FeedLines :
          /\ market' = Feed(run, k)
          /\ pc' = IF k = FeedLines THEN "wf_touch" ELSE "wf_market_write"
    /\ UNCHANGED <<now, status, bank, run, orphan, exitCode, caller, call, bench>>
    /\ UNCHANGED gen

\* Line 68: STATUS.touch() creates the file when it is missing.
TouchStatus ==
    /\ pc = "wf_touch"
    /\ status' = IF status.exists THEN status ELSE File(<<>>)
    /\ pc' = IF caller = "bench" THEN "b_popen" ELSE "spawn"
    /\ UNCHANGED <<now, bank, market, run, orphan, exitCode, caller, call, bench>>
    /\ UNCHANGED gen

InWriteFiles ==
    pc \in {"wf_unlink_bank", "wf_unlink_market", "wf_unlink_status", "wf_bank_open",
            "wf_bank_write", "wf_market_open", "wf_market_write", "wf_touch"}

\* ---------------------------------------------------- a concurrent reader
\* What a process that opens a feed now finds (feeder_bank, feeder_market, an
\* engine started by hand).
FeedView(f) ==
    IF ~f.exists THEN "missing"
    ELSE IF f.gen # run THEN "previous"
    ELSE IF f.len = FeedLines THEN "complete"
    ELSE IF f.len = 0 THEN "empty"
    ELSE "partial"

\* What status_tail finds: before the spawn every line is of an earlier run.
StatusView ==
    IF ~status.exists THEN "missing"
    ELSE IF status.lines = <<>> THEN "empty"
    ELSE "stale"

\* ------------------------------------------------ generate_and_assert.main
\* Lines 151-157, 161: a dataset is generated and written, the orchestrator is
\* called with its expected triple. (main passes 20 s; the model runs it with every
\* timeout up to MaxTimeout.)
MainGenerate ==
    /\ pc = "main"
    /\ run' = run + 1
    /\ expected' \in Triples
    /\ timeout_sec' \in 0..MaxTimeout
    /\ caller' = "main"
    /\ pc' = "wf_unlink_bank"
    /\ UNCHANGED <<now, status, bank, market, orphan, exitCode, start, child,
                   sigterm, sigkill, result, outcome, polls, sleeps, seen, finalRead,
                   exc, bench>>
    /\ UNCHANGED gen

\* Lines 160-166 without the comparison of line 162.
MainCheck_NoCompare ==
    /\ pc = "done"
    /\ caller = "main"
    /\ exitCode' = IF exc # "none" THEN 1 ELSE 0
    /\ printed' = IF exc = "none" THEN <<expected, result>> ELSE <<>>
    /\ pc' = "exited"
    /\ UNCHANGED <<now, status, bank, market, run, orphan, caller, call, bench>>
    /\ UNCHANGED <<genCore, data, parse, analysis, saved>>

\* Lines 160-166: the triples are printed; exit status 1 on a mismatch (or on an
\* exception, which prints no triple), 0 otherwise.
MainCheck ==
    /\ pc = "done"
    /\ caller = "main"
    /\ exitCode' = IF exc # "none" \/ result # expected THEN 1 ELSE 0
    /\ printed' = IF exc = "none" THEN <<expected, result>> ELSE <<>>
    /\ pc' = "exited"
    /\ UNCHANGED <<now, status, bank, market, run, orphan, caller, call, bench>>
    /\ UNCHANGED <<genCore, data, parse, analysis, saved>>

\* The script is started again: a new process with new locals, its clock counted
\* from its start. A child the last run left behind is nobody's child.
Rerun ==
    /\ pc = "exited"
    /\ run < MaxRuns
    /\ orphan' = (orphan \/ child = "running")
    /\ child' = "none"
    /\ sigterm' = FALSE
    /\ sigkill' = FALSE
    /\ result' = Zeros
    /\ outcome' = "none"
    /\ polls' = 0
    /\ sleeps' = 0
    /\ seen' = <<>>
    /\ finalRead' = FALSE
    /\ exc' = "none"
    /\ exitCode' = -1
    /\ now' = 0
    /\ start' = 0
    /\ timeout_sec' = 0
    /\ expected' = Zeros
    /\ printed' = <<>>
    /\ pc' = "main"
    /\ UNCHANGED <<status, bank, market, run, caller, bench>>
    /\ UNCHANGED <<genCore, data, parse, analysis, saved>>

\* The child of an earlier run ends (its SIGKILL is delivered).
OrphanExits ==
    /\ orphan
    /\ orphan' = FALSE
    /\ UNCHANGED <<pc, now, status, bank, market, run, exitCode, caller, call, bench>>
    /\ UNCHANGED gen

InitMain ==
    /\ pc = "main"
    /\ now = 0
    /\ start = 0
    /\ timeout_sec = 0
    /\ expected = Zeros
    /\ status = Absent
    /\ child = "none"
    /\ sigterm = FALSE
    /\ sigkill = FALSE
    /\ result = Zeros
    /\ outcome = "none"
    /\ polls = 0
    /\ sleeps = 0
    /\ seen = <<>>
    /\ finalRead = FALSE
    /\ exc = "none"
    /\ OuterIdle

WriteFiles ==
    \/ UnlinkBank
    \/ UnlinkMarket
    \/ UnlinkStatus
    \/ BankOpen
    \/ BankWrite
    \/ MarketOpen
    \/ MarketWrite
    \/ TouchStatus

\* One run of the script.
NextMainOnce ==
    \/ MainGenerate
    \/ WriteFiles
    \/ Next
    \/ MainCheck

SpecMainOnce == InitMain /\ [][NextMainOnce]_vars

NextMain ==
    \/ MainGenerate
    \/ WriteFiles
    \/ Next
    \/ MainCheck
    \/ Rerun
    \/ OrphanExits

SpecMain == InitMain /\ [][NextMain]_vars

\* --------------------------------------------------- BenchmarkRunner
\* benchmark.py lines 98-99, 104-106, 126-129, 133-135: the next iteration (a
\* warmup while iter < warmup_iterations) generates its dataset and writes it.
BenchIteration ==
    /\ pc = "b_loop"
    /\ iter < warmup_iterations + measurement_iterations
    /\ run' = run + 1
    /\ pc' = "wf_unlink_bank"
    /\ UNCHANGED <<now, status, bank, market, orphan, exitCode, caller, call, bench>>
    /\ UNCHANGED gen

\* Lines 138, 210-218: the clock is read and the engine is spawned, its output piped.
BenchPopen ==
    /\ pc = "b_popen"
    /\ child' = "running"
    /\ sigterm' = FALSE
    /\ sigkill' = FALSE
    /\ start' = now
    /\ pc' = "b_communicate"
    /\ UNCHANGED <<now, status, timeout_sec, expected, result, outcome, polls, sleeps,
                   seen, finalRead, exc, outer>>

\* Line 216 raising: the exception leaves run_benchmark.
BenchPopenFails ==
    /\ pc = "b_popen"
    /\ exc' = "OSError"
    /\ outcome' = "raised"
    /\ pc' = "b_raised"
    /\ UNCHANGED <<now, status, start, timeout_sec, expected, child, sigterm, sigkill,
                   result, polls, sleeps, seen, finalRead, outer>>

\* Lines 219-226, 130-131, 140-155, 107: proc.communicate returns when the engine
\* has exited, after d ticks; a measurement iteration records its duration.
CommunicateReturns ==
    /\ pc = "b_communicate"
    /\ child = "exited"
    /\ \E d \in 0..timeout_sec :
          /\ now' = now + d
          /\ metrics' = IF iter < warmup_iterations
                        THEN metrics
                        ELSE Append(metrics, [iteration |-> iter + 1, duration |-> d])
    /\ iter' = iter + 1
    /\ pc' = "b_loop"
    /\ UNCHANGED <<status, bank, market, run, orphan, exitCode, caller, call,
                   warmup_iterations, measurement_iterations>>
    /\ UNCHANGED gen

\* Lines 219, 228-230: the engine has not exited after timeout_sec; it is killed
\* and RuntimeError leaves run_benchmark.
CommunicateExpires ==
    /\ pc = "b_communicate"
    /\ child = "running"
    /\ now' = now + timeout_sec
    /\ sigkill' = TRUE
    /\ exc' = "RuntimeError"
    /\ outcome' = "raised"
    /\ pc' = "b_raised"
    /\ UNCHANGED <<status, start, timeout_sec, expected, child, sigterm, result, polls,
                   sleeps, seen, finalRead, outer>>

\* Lines 110-122: after the last iteration the means are taken (statistics.mean
\* raises on an empty list) and the result is built, saved and printed.
BenchFinish ==
    /\ pc = "b_loop"
    /\ iter = warmup_iterations + measurement_iterations
    /\ IF metrics = <<>>
       THEN /\ exc' = "StatisticsError"
            /\ outcome' = "raised"
            /\ pc' = "b_raised"
            /\ UNCHANGED saved
       ELSE /\ saved' = Append(saved, metrics)
            /\ pc' = "b_done"
            /\ UNCHANGED <<exc, outcome>>
    /\ UNCHANGED <<now, status, start, timeout_sec, expected, child, sigterm, sigkill,
                   result, polls, sleeps, seen, finalRead>>
    /\ UNCHANGED <<bank, market, run, orphan, exitCode, caller, bench>>
    /\ UNCHANGED <<genCore, data, parse, analysis, printed>>

\* run_benchmark(config): any iteration counts, timeout and expected counts
\* (num_obligations, num_unmatches, num_duplicates).
InitBench ==
    /\ pc = "b_loop"
    /\ now = 0
    /\ start = 0
    /\ timeout_sec \in 0..MaxTimeout
    /\ expected \in Triples
    /\ status = Absent
    /\ child = "none"
    /\ sigterm = FALSE
    /\ sigkill = FALSE
    /\ result = Zeros
    /\ outcome = "none"
    /\ polls = 0
    /\ sleeps = 0
    /\ seen = <<>>
    /\ finalRead = FALSE
    /\ exc = "none"
    /\ bank = NoFeed
    /\ market = NoFeed
    /\ run = 0
    /\ orphan = FALSE
    /\ exitCode = -1
    /\ warmup_iterations \in 0..MaxWarmup
    /\ measurement_iterations \in 0..MaxMeasure
    /\ iter = 0
    /\ metrics = <<>>
    /\ caller = "bench"
    /\ GenIdle

NextBench ==
    \/ BenchIteration
    \/ WriteFiles
    \/ BenchPopen
    \/ BenchPopenFails
    \/ CommunicateReturns
    \/ CommunicateExpires
    \/ BenchFinish
    \/ EngineAppend
    \/ EngineExits

SpecBench == InitBench /\ [][NextBench]_vars

\* -------------------------------------------------------- generate_dataset
\* What the random source may return. Draws no count depends on (venue, settle
\* date, quantity) are taken from one value each.
VenueDraws == {"LSE"}
TradeIsinDraws == {"US0000000000", "US9999999999"}
\* rand_isin() draws 12 characters of A-Z0-9: any string a trade's isin can be, too.
RandIsinDraws == TradeIsinDraws \cup {"ZZZZZZZZZZZZ"}
AccountDraws == {100, 999}
DateDraws == {<<12, 28>>}
QtyDraws == {100}
At == "2024-01-01T00:00:00Z"

TradeDraws ==
    [venue : VenueDraws, isin : TradeIsinDraws, account : AccountDraws,
     settle_date : DateDraws, intended_qty : QtyDraws]
FakeDraws == [isin : RandIsinDraws, settle_date : DateDraws, intended_qty : QtyDraws]

Min(a, b) == IF a <= b THEN a ELSE b

\* Lines 36-44 with one identifier for every trade.
Trade_SameId(i, d) ==
    [obligation_id |-> <<"OBL", 1>>, venue |-> d.venue, isin |-> d.isin,
     account |-> <<"ACC", d.account>>, settle_date |-> d.settle_date,
     intended_qty |-> d.intended_qty]

\* generate_and_assert.py lines 36-44: the i-th trade (i counted from 1), OBL0000i.
Trade(i, d) ==
    [obligation_id |-> <<"OBL", i>>, venue |-> d.venue, isin |-> d.isin,
     account |-> <<"ACC", d.account>>, settle_date |-> d.settle_date,
     intended_qty |-> d.intended_qty]

\* Lines 129-136 with the fake accounts numbered from 999, a trade's largest.
Fake_InRange(i, d) ==
    [obligation_id |-> <<"FAKE", i>>, venue |-> "OTC", isin |-> d.isin,
     account |-> <<"ACC", 998 + i>>, settle_date |-> d.settle_date,
     intended_qty |-> d.intended_qty]

\* Lines 129-136: the i-th fake trade (i counted from 1): FAKEi, account ACC(999+i).
Fake(i, d) ==
    [obligation_id |-> <<"FAKE", i>>, venue |-> "OTC", isin |-> d.isin,
     account |-> <<"ACC", 999 + i>>, settle_date |-> d.settle_date,
     intended_qty |-> d.intended_qty]

\* Line 51: the fields of a bank line, in order.
as_bank_line(t) ==
    <<t.obligation_id, t.venue, t.isin, t.account, t.settle_date, t.intended_qty>>

\* Line 58: the fields of a market line, in order.
as_market_line(t, msg_id, seq) ==
    <<msg_id, seq, "MATCHED", t.isin, t.account, t.settle_date, t.intended_qty, At>>

\* Lines 116, 137: f"M_{obligation_id}".
MsgId(obligation_id) == <<"M_", obligation_id>>

\* random.sample(range(n), k), as positions counted from 1: k distinct ones, in
\* the order drawn.
Samples(n, k) ==
    { q \in [1..k -> 1..n] : \A i, j \in 1..k : i # j => q[i] # q[j] }

\* random.sample(population, k) raises ValueError for these k.
SampleRaises(n, k) == k < 0 \/ k > n

\* Line 121 without the cap of min().
DupCount_Uncapped(nd, n) == nd

\* Line 121: how many duplicates are drawn.
DupCount(nd, n) == IF nd > 0 THEN Min(nd, n) ELSE 0

\* An exchange that overwrites position i and keeps position j.
Swap_Overwrite(q, i, j) == [q EXCEPT ![i] = q[j]]

Swap(q, i, j) == [q EXCEPT ![i] = q[j], ![j] = q[i]]

\* Lines 108-118: make_trades, the bank lines, one MATCHED line with seq 1 per trade.
GenTrades ==
    /\ gpc = "make_trades"
    /\ \E d \in [1..n_trades -> TradeDraws] :
          /\ trades' = [i \in 1..n_trades |-> Trade(i, d[i])]
          /\ bank_lines' = [i \in 1..n_trades |-> as_bank_line(Trade(i, d[i]))]
          /\ market_lines' =
                [i \in 1..n_trades |->
                    as_market_line(Trade(i, d[i]), MsgId(<<"OBL", i>>), 1)]
    /\ gpc' = "duplicates"
    /\ UNCHANGED <<n_trades, n_unmatches, n_duplicates, dup_indices, shuf, gexpected,
                   consumed, seenKeys, matched>>
    /\ UNCHANGED ext
    /\ UNCHANGED harness

\* Lines 121-125: the lines of the sampled trades are appended once more.
GenDuplicates ==
    /\ gpc = "duplicates"
    /\ LET n == Len(trades)
           k == DupCount(n_duplicates, n)
       IN  IF SampleRaises(n, k)
           THEN /\ gexc' = "ValueError"
                /\ gpc' = "raised"
                /\ UNCHANGED <<market_lines, dup_indices>>
           ELSE /\ \E q \in Samples(n, k) :
                      /\ dup_indices' = q
                      /\ market_lines' = market_lines \o
                            [j \in 1..k |->
                                as_market_line(trades[q[j]],
                                               MsgId(trades[q[j]].obligation_id), 1)]
                /\ gpc' = "unmatches"
                /\ UNCHANGED gexc
    /\ UNCHANGED <<n_trades, n_unmatches, n_duplicates, trades, bank_lines, shuf,
                   gexpected, consumed, seenKeys, matched>>
    /\ UNCHANGED <<num_status_events, msg_seq, add_i, calls, first>>
    /\ UNCHANGED <<parse, analysis, saved, printed>>
    /\ UNCHANGED harness

\* Lines 128-137: one line per fake trade.
GenUnmatches ==
    /\ gpc = "unmatches"
    /\ \E d \in [1..n_unmatches -> FakeDraws] :
          market_lines' = market_lines \o
                [i \in 1..n_unmatches |->
                    as_market_line(Fake(i, d[i]), MsgId(<<"FAKE", i>>), 1)]
    /\ shuf' = Len(bank_lines)
    /\ gpc' = "shuffle_bank"
    /\ UNCHANGED <<n_trades, n_unmatches, n_duplicates, trades, bank_lines, dup_indices,
                   gexpected, consumed, seenKeys, matched>>
    /\ UNCHANGED ext
    /\ UNCHANGED harness

\* Line 140: random.shuffle(bank_lines), one exchange of the Fisher-Yates loop.
ShuffleBank ==
    /\ gpc = "shuffle_bank"
    /\ shuf >= 2
    /\ \E j \in 1..shuf : bank_lines' = Swap(bank_lines, shuf, j)
    /\ shuf' = shuf - 1
    /\ UNCHANGED <<gpc, n_trades, n_unmatches, n_duplicates, trades, market_lines,
                   dup_indices, gexpected, consumed, seenKeys, matched>>
    /\ UNCHANGED ext
    /\ UNCHANGED harness

\* Lines 140-141: the loop of the first shuffle ends, the second begins.
ShuffleBankEnds ==
    /\ gpc = "shuffle_bank"
    /\ shuf < 2
    /\ shuf' = Len(market_lines)
    /\ gpc' = "shuffle_market"
    /\ UNCHANGED <<n_trades, n_unmatches, n_duplicates, trades, bank_lines, market_lines,
                   dup_indices, gexpected, consumed, seenKeys, matched>>
    /\ UNCHANGED ext
    /\ UNCHANGED harness

\* Line 141: random.shuffle(market_lines), one exchange.
ShuffleMarket ==
    /\ gpc = "shuffle_market"
    /\ shuf >= 2
    /\ \E j \in 1..shuf : market_lines' = Swap(market_lines, shuf, j)
    /\ shuf' = shuf - 1
    /\ UNCHANGED <<gpc, n_trades, n_unmatches, n_duplicates, trades, bank_lines,
                   dup_indices, gexpected, consumed, seenKeys, matched>>
    /\ UNCHANGED ext
    /\ UNCHANGED harness

\* Lines 146-147: the expected triple is built from the arguments and returned.
GenReturn ==
    /\ gpc = "shuffle_market"
    /\ shuf < 2
    /\ gexpected' = <<n_trades, n_unmatches, n_duplicates>>
    /\ gpc' = "done"
    /\ UNCHANGED <<n_trades, n_unmatches, n_duplicates, trades, bank_lines, market_lines,
                   dup_indices, shuf, consumed, seenKeys, matched>>
    /\ UNCHANGED ext
    /\ UNCHANGED harness

\* --------------------------------------- BenchmarkRunner._generate_dataset
\* Line 200: random.randint(100000, 999999) behind "FAKE".
BenchFakeIsinDraws == {"FAKE100000", "FAKE999999"}

\* benchmark.py lines 180-188: status and quantity of additional event i.
StatusOf(i) ==
    IF i % 3 = 0 THEN "PARTIAL_SETTLED" ELSE IF i % 3 = 1 THEN "SETTLED" ELSE "ACK"
QtyOf(i, qty) == IF i % 3 = 0 THEN qty \div 4 ELSE qty

\* Lines 182, 185, 188: the line of additional event i.
additional_line(t, msg_id, new_seq, i) ==
    <<msg_id, new_seq, StatusOf(i), t.isin, t.account, t.settle_date,
      QtyOf(i, t.intended_qty), At>>

\* Line 200: the line of unmatched event i (counted from 0).
fake_line(i, isin) ==
    <<<<"FAKE_", i>>, 1, "MATCHED", isin, <<"ACC", 999>>, <<12, 31>>, 100, At>>

\* Lines 159-170: make_trades, the bank lines, the primary events, msg_seq.
BenchGenTrades ==
    /\ gpc = "b_trades"
    /\ \E d \in [1..n_trades -> TradeDraws] :
          /\ trades' = [i \in 1..n_trades |-> Trade(i, d[i])]
          /\ bank_lines' = [i \in 1..n_trades |-> as_bank_line(Trade(i, d[i]))]
          /\ market_lines' =
                [i \in 1..n_trades |->
                    as_market_line(Trade(i, d[i]), MsgId(<<"OBL", i>>), 1)]
    /\ msg_seq' = [i \in 1..n_trades |-> 1]
    /\ add_i' = 0
    /\ gpc' = "b_additional"
    /\ UNCHANGED <<n_trades, n_unmatches, n_duplicates, dup_indices, shuf, gexpected,
                   consumed, seenKeys, matched>>
    /\ UNCHANGED <<num_status_events, gexc, calls, first>>
    /\ UNCHANGED <<parse, analysis, saved, printed>>
    /\ UNCHANGED harness

\* Lines 173-191: one pass of the loop over range(additional_events);
\* random.choice raises IndexError on an empty list.
BenchAdditional ==
    /\ gpc = "b_additional"
    /\ add_i < num_status_events - Len(trades)
    /\ IF trades = <<>>
       THEN /\ gexc' = "IndexError"
            /\ gpc' = "raised"
            /\ UNCHANGED <<market_lines, msg_seq, add_i>>
       ELSE /\ \E k \in DOMAIN trades :
                  /\ market_lines' = Append(market_lines,
                        additional_line(trades[k], MsgId(trades[k].obligation_id),
                                        msg_seq[k] + 1, add_i))
                  /\ msg_seq' = [msg_seq EXCEPT ![k] = msg_seq[k] + 1]
            /\ add_i' = add_i + 1
            /\ UNCHANGED <<gpc, gexc>>
    /\ UNCHANGED <<n_trades, n_unmatches, n_duplicates, trades, bank_lines, dup_indices,
                   shuf, gexpected, consumed, seenKeys, matched>>
    /\ UNCHANGED <<num_status_events, calls, first>>
    /\ UNCHANGED <<parse, analysis, saved, printed>>
    /\ UNCHANGED harness

\* Line 174: the loop ends.
BenchAdditionalEnds ==
    /\ gpc = "b_additional"
    /\ add_i >= num_status_events - Len(trades)
    /\ gpc' = "b_duplicates"
    /\ UNCHANGED <<n_trades, n_unmatches, n_duplicates, trades, bank_lines, market_lines,
                   dup_indices, shuf, gexpected, consumed, seenKeys, matched>>
    /\ UNCHANGED <<data, parse, analysis, saved, printed>>
    /\ UNCHANGED harness

\* Lines 194-196: the sampled lines are appended once more.
BenchDuplicates ==
    /\ gpc = "b_duplicates"
    /\ LET n == Len(market_lines)
           k == Min(n_duplicates, n)
       IN  IF SampleRaises(n, k)
           THEN /\ gexc' = "ValueError"
                /\ gpc' = "raised"
                /\ UNCHANGED <<market_lines, dup_indices>>
           ELSE /\ \E q \in Samples(n, k) :
                      /\ dup_indices' = q
                      /\ market_lines' = market_lines \o
                            [j \in 1..k |-> market_lines[q[j]]]
                /\ gpc' = "b_unmatches"
                /\ UNCHANGED gexc
    /\ UNCHANGED <<n_trades, n_unmatches, n_duplicates, trades, bank_lines, shuf,
                   gexpected, consumed, seenKeys, matched>>
    /\ UNCHANGED <<num_status_events, msg_seq, add_i, calls, first>>
    /\ UNCHANGED <<parse, analysis, saved, printed>>
    /\ UNCHANGED harness

\* Lines 199-201: one line per unmatched event.
BenchUnmatches ==
    /\ gpc = "b_unmatches"
    /\ \E d \in [1..n_unmatches -> BenchFakeIsinDraws] :
          market_lines' = market_lines \o
                [i \in 1..n_unmatches |-> fake_line(i - 1, d[i])]
    /\ shuf' = Len(market_lines) + n_unmatches
    /\ gpc' = "b_shuffle"
    /\ UNCHANGED <<n_trades, n_unmatches, n_duplicates, trades, bank_lines, dup_indices,
                   gexpected, consumed, seenKeys, matched>>
    /\ UNCHANGED <<data, parse, analysis, saved, printed>>
    /\ UNCHANGED harness

\* Line 204: random.shuffle(market_lines), one exchange.
BenchShuffle ==
    /\ gpc = "b_shuffle"
    /\ shuf >= 2
    /\ \E j \in 1..shuf : market_lines' = Swap(market_lines, shuf, j)
    /\ shuf' = shuf - 1
    /\ UNCHANGED <<gpc, n_trades, n_unmatches, n_duplicates, trades, bank_lines,
                   dup_indices, gexpected, consumed, seenKeys, matched>>
    /\ UNCHANGED <<data, parse, analysis, saved, printed>>
    /\ UNCHANGED harness

\* Line 206: both lists are returned.
BenchGenReturn ==
    /\ gpc = "b_shuffle"
    /\ shuf < 2
    /\ calls' = calls + 1
    /\ first' = IF calls = 0 THEN <<bank_lines, market_lines>> ELSE first
    /\ gpc' = "done"
    /\ UNCHANGED <<n_trades, n_unmatches, n_duplicates, trades, bank_lines, market_lines,
                   dup_indices, shuf, gexpected, consumed, seenKeys, matched>>
    /\ UNCHANGED <<num_status_events, msg_seq, add_i, gexc>>
    /\ UNCHANGED <<parse, analysis, saved, printed>>
    /\ UNCHANGED harness

BenchGenerate ==
    \/ BenchGenTrades
    \/ BenchAdditional
    \/ BenchAdditionalEnds
    \/ BenchDuplicates
    \/ BenchUnmatches
    \/ BenchShuffle
    \/ BenchGenReturn

\* ---------------------------------------------------------- a stub engine
\* The engine is not part of the harness. The stub honours the contract of the
\* status log: it knows every obligation of the bank feed and takes the market
\* lines in feed order.
MatchedLine == [prefix |-> "StateChanged(", toMatched |-> TRUE]
NoMatchLine == [prefix |-> "NoMatch(", toMatched |-> FALSE]
DuplicateLine == [prefix |-> "DuplicateIgnored(", toMatched |-> FALSE]

\* The obligations (bank lines) whose isin, account and settle date are the event's.
Candidates(e) ==
    { i \in DOMAIN bank_lines :
        /\ bank_lines[i][3] = e[4]
        /\ bank_lines[i][4] = e[5]
        /\ bank_lines[i][5] = e[6] }

\* One market line is consumed and answered with at most one status line.
StubConsume ==
    /\ gpc = "done"
    /\ consumed < Len(market_lines)
    /\ LET e == market_lines[consumed + 1]
           key == <<e[1], e[2]>>
           free == Candidates(e) \ matched
       IN  IF key \in seenKeys
           THEN /\ status' = File(Append(status.lines, DuplicateLine))
                /\ UNCHANGED <<seenKeys, matched>>
           ELSE /\ seenKeys' = seenKeys \cup {key}
                /\ IF Candidates(e) = {}
                   THEN /\ status' = File(Append(status.lines, NoMatchLine))
                        /\ UNCHANGED matched
                   ELSE IF e[3] = "MATCHED" /\ free # {}
                   THEN /\ status' = File(Append(status.lines, MatchedLine))
                        /\ matched' = matched \cup {CHOOSE i \in free : TRUE}
                   ELSE UNCHANGED <<status, matched>>
    /\ consumed' = consumed + 1
    /\ UNCHANGED <<gpc, n_trades, n_unmatches, n_duplicates, trades, bank_lines,
                   market_lines, dup_indices, shuf, gexpected>>
    /\ UNCHANGED ext
    /\ UNCHANGED <<pc, now, call, bank, market, run, orphan, exitCode, caller, bench>>

\* generate_dataset(n_trades, n_unmatches, n_duplicates) for any arguments; the
\* status artifact is empty, as write_files leaves it.
InitGen ==
    /\ pc = "generate"
    /\ now = 0
    /\ start = 0
    /\ timeout_sec = 0
    /\ expected = Zeros
    /\ status = File(<<>>)
    /\ child = "none"
    /\ sigterm = FALSE
    /\ sigkill = FALSE
    /\ result = Zeros
    /\ outcome = "none"
    /\ polls = 0
    /\ sleeps = 0
    /\ seen = <<>>
    /\ finalRead = FALSE
    /\ exc = "none"
    /\ bank = NoFeed
    /\ market = NoFeed
    /\ run = 0
    /\ orphan = FALSE
    /\ exitCode = -1
    /\ warmup_iterations = 0
    /\ measurement_iterations = 0
    /\ iter = 0
    /\ metrics = <<>>
    /\ caller = "none"
    /\ gpc = "make_trades"
    /\ n_trades \in 0..MaxTrades
    /\ n_unmatches \in 0..MaxUnmatches
    /\ n_duplicates \in 0..MaxDuplicates
    /\ trades = <<>>
    /\ bank_lines = <<>>
    /\ market_lines = <<>>
    /\ dup_indices = <<>>
    /\ shuf = 0
    /\ gexpected = Zeros
    /\ consumed = 0
    /\ seenKeys = {}
    /\ matched = {}
    /\ ExtIdle

Generate ==
    \/ GenTrades
    \/ GenDuplicates
    \/ GenUnmatches
    \/ ShuffleBank
    \/ ShuffleBankEnds
    \/ ShuffleMarket
    \/ GenReturn

NextGen == Generate

SpecGen == InitGen /\ [][NextGen]_vars

NextStub ==
    \/ Generate
    \/ StubConsume

SpecStub == InitGen /\ [][NextStub]_vars

\* ------------------------------------------------- both dataset generators
\* Lines of both feeds together that the arguments ask for.
FeedSize(kind, nt, ne, nd, nu) ==
    LET base == IF kind = "bench" /\ ne > nt THEN ne ELSE nt
    IN  nt + base + Min(nd, base) + nu

\* A call of generate_dataset (caller "main") or of _generate_dataset (caller
\* "bench") with any arguments that ask for at most maxFeed lines.
InitDataset(maxFeed) ==
    /\ pc = "generate"
    /\ now = 0
    /\ start = 0
    /\ timeout_sec = 0
    /\ expected = Zeros
    /\ status = File(<<>>)
    /\ child = "none"
    /\ sigterm = FALSE
    /\ sigkill = FALSE
    /\ result = Zeros
    /\ outcome = "none"
    /\ polls = 0
    /\ sleeps = 0
    /\ seen = <<>>
    /\ finalRead = FALSE
    /\ exc = "none"
    /\ bank = NoFeed
    /\ market = NoFeed
    /\ run = 0
    /\ orphan = FALSE
    /\ exitCode = -1
    /\ warmup_iterations = 0
    /\ measurement_iterations = 0
    /\ iter = 0
    /\ metrics = <<>>
    /\ caller \in {"main", "bench"}
    /\ gpc = IF caller = "main" THEN "make_trades" ELSE "b_trades"
    /\ n_trades \in 0..MaxTrades
    /\ n_unmatches \in 0..MaxUnmatches
    /\ n_duplicates \in 0..MaxDuplicates
    /\ num_status_events \in IF caller = "bench" THEN 0..MaxEvents ELSE {0}
    /\ FeedSize(caller, n_trades, num_status_events, n_duplicates, n_unmatches)
          <= maxFeed
    /\ trades = <<>>
    /\ bank_lines = <<>>
    /\ market_lines = <<>>
    /\ dup_indices = <<>>
    /\ shuf = 0
    /\ gexpected = Zeros
    /\ consumed = 0
    /\ seenKeys = {}
    /\ matched = {}
    /\ msg_seq = <<>>
    /\ add_i = 0
    /\ gexc = "none"
    /\ calls = 0
    /\ first = <<>>
    /\ ParseIdle
    /\ AnalysisIdle
    /\ saved = <<>>
    /\ printed = <<>>

InitData == InitDataset(MaxFeed)

NextData ==
    \/ Generate
    \/ BenchGenerate

SpecData == InitData /\ [][NextData]_vars

\* benchmark.py lines 98-99, 104-106, 126, 133: the next iteration of the same
\* scenario generates its dataset from the same config; nothing seeds the random
\* source in between (random.seed is called once, at line 392).
BenchGenAgain ==
    /\ gpc = "done"
    /\ caller = "bench"
    /\ calls < MaxCalls
    /\ trades' = <<>>
    /\ bank_lines' = <<>>
    /\ market_lines' = <<>>
    /\ dup_indices' = <<>>
    /\ shuf' = 0
    /\ msg_seq' = <<>>
    /\ add_i' = 0
    /\ gpc' = "b_trades"
    /\ UNCHANGED <<n_trades, n_unmatches, n_duplicates, gexpected, consumed, seenKeys,
                   matched>>
    /\ UNCHANGED <<num_status_events, gexc, calls, first>>
    /\ UNCHANGED <<parse, analysis, saved, printed>>
    /\ UNCHANGED harness

InitSeeded == InitDataset(MaxRepeatFeed) /\ caller = "bench"

NextSeeded ==
    \/ BenchGenerate
    \/ BenchGenAgain

SpecSeeded == InitSeeded /\ [][NextSeeded]_vars

\* ------------------------------------------------- _parse_kotlin_metrics
\* Everything but the function looked at is at rest.
HarnessAtRest ==
    /\ pc = "generate"
    /\ now = 0
    /\ start = 0
    /\ timeout_sec = 0
    /\ expected = Zeros
    /\ status = File(<<>>)
    /\ child = "none"
    /\ sigterm = FALSE
    /\ sigkill = FALSE
    /\ result = Zeros
    /\ outcome = "none"
    /\ polls = 0
    /\ sleeps = 0
    /\ seen = <<>>
    /\ finalRead = FALSE
    /\ exc = "none"
    /\ bank = NoFeed
    /\ market = NoFeed
    /\ run = 0
    /\ orphan = FALSE
    /\ exitCode = -1
    /\ warmup_iterations = 0
    /\ measurement_iterations = 0
    /\ iter = 0
    /\ metrics = <<>>
    /\ caller = "none"

\* The texts a value is written as, and the keys: the four of lines 254-261 and
\* one more.
ValueTexts == {"12.5", "42", "abc"}
Keys == {"memory_mb", "gc_time_ms", "duration_ms", "peak_entities", "other"}

\* float(value) and int(value): whether they return, and what (floats in tenths).
FloatOk(v) == v \in {"12.5", "42"}
FloatOf(v) == IF v = "12.5" THEN 125 ELSE 420
IntOk(v) == v = "42"
IntOf(v) == 42

\* A piece of the metrics line between two ", ": with "=" (line 249) a key and a
\* value, or without.
Pair(k, v) == [eq |-> TRUE, key |-> k, value |-> v]
NoEqPair == [eq |-> FALSE, key |-> "other", value |-> "abc"]
Pairs == { Pair(k, v) : k \in Keys, v \in ValueTexts } \cup {NoEqPair}

\* An output line: whether it starts with "BENCHMARK_METRICS:", and its pairs.
NoiseLine == [marker |-> FALSE, pairs |-> <<>>]
MetricsLine(ps) == [marker |-> TRUE, pairs |-> ps]
\* The line of the engine, all four keys present.
FullLine ==
    MetricsLine(<<Pair("memory_mb", "12.5"), Pair("gc_time_ms", "12.5"),
                  Pair("duration_ms", "42"), Pair("peak_entities", "42")>>)
\* A later metrics line.
LaterLine ==
    MetricsLine(<<Pair("memory_mb", "42"), Pair("gc_time_ms", "42"),
                  Pair("duration_ms", "12.5"), Pair("peak_entities", "42")>>)

\* What the engine may print: a line of no interest or none, a metrics line of
\* at most MaxPairs pairs (or the full one) or none, a later metrics line or none.
Stdouts ==
    { pre \o mid \o post :
        pre \in {<<>>, <<NoiseLine>>},
        mid \in {<<>>, <<FullLine>>} \cup
                { <<MetricsLine(ps)>> : ps \in SeqsUpTo(Pairs, MaxPairs) },
        post \in {<<>>, <<LaterLine>>} }

\* Lines 249-263: what one pair does to profiling_data, ValueError swallowed.
ApplyPair(pd, p) ==
    IF ~p.eq THEN pd
    ELSE IF p.key = "memory_mb" /\ FloatOk(p.value)
    THEN [pd EXCEPT !.memory_mb = FloatOf(p.value)]
    ELSE IF p.key = "gc_time_ms" /\ FloatOk(p.value)
    THEN [pd EXCEPT !.gc_time_ms = FloatOf(p.value)]
    ELSE IF p.key = "duration_ms" /\ FloatOk(p.value)
    THEN [pd EXCEPT !.cpu_time_ms = FloatOf(p.value)]
    ELSE IF p.key = "peak_entities" /\ IntOk(p.value)
    THEN [pd EXCEPT !.peak_entities = IntOf(p.value)]
    ELSE pd

\* Whether the conversion of lines 254-261 raises ValueError for the pair.
Raises(p) ==
    /\ p.eq
    /\ \/ p.key \in {"memory_mb", "gc_time_ms", "duration_ms"} /\ ~FloatOk(p.value)
       \/ p.key = "peak_entities" /\ ~IntOk(p.value)

\* Lines 242-243: a line that does not start with the marker is passed over.
ParseSkipLine ==
    /\ ppc = "lines"
    /\ line_i <= Len(stdout)
    /\ ~stdout[line_i].marker
    /\ line_i' = line_i + 1
    /\ UNCHANGED <<stdout, ppc, pair_i, profiling_data>>
    /\ UNCHANGED <<genCore, data, analysis, saved, printed>>
    /\ UNCHANGED harness

\* Lines 243-246: the first line that starts with the marker is split into pairs.
ParseEnterLine ==
    /\ ppc = "lines"
    /\ line_i <= Len(stdout)
    /\ stdout[line_i].marker
    /\ pair_i' = 1
    /\ ppc' = "pairs"
    /\ UNCHANGED <<stdout, line_i, profiling_data>>
    /\ UNCHANGED <<genCore, data, analysis, saved, printed>>
    /\ UNCHANGED harness

\* Lines 246-263 with the try around the loop: a ValueError ends the line.
ParsePair_AbortLine ==
    /\ ppc = "pairs"
    /\ pair_i <= Len(stdout[line_i].pairs)
    /\ IF Raises(stdout[line_i].pairs[pair_i])
       THEN /\ ppc' = "returned"
            /\ UNCHANGED <<pair_i, profiling_data>>
       ELSE /\ profiling_data' = ApplyPair(profiling_data, stdout[line_i].pairs[pair_i])
            /\ pair_i' = pair_i + 1
            /\ UNCHANGED ppc
    /\ UNCHANGED <<stdout, line_i>>
    /\ UNCHANGED <<genCore, data, analysis, saved, printed>>
    /\ UNCHANGED harness

\* Lines 246-263: one pass of the loop over the pairs.
ParsePair ==
    /\ ppc = "pairs"
    /\ pair_i <= Len(stdout[line_i].pairs)
    /\ profiling_data' = ApplyPair(profiling_data, stdout[line_i].pairs[pair_i])
    /\ pair_i' = pair_i + 1
    /\ UNCHANGED <<stdout, ppc, line_i>>
    /\ UNCHANGED <<genCore, data, analysis, saved, printed>>
    /\ UNCHANGED harness

\* Lines 264-266: after the last pair, break and return.
ParseBreak ==
    /\ ppc = "pairs"
    /\ pair_i > Len(stdout[line_i].pairs)
    /\ ppc' = "returned"
    /\ UNCHANGED <<stdout, line_i, pair_i, profiling_data>>
    /\ UNCHANGED <<genCore, data, analysis, saved, printed>>
    /\ UNCHANGED harness

\* Lines 242, 266: no line is left; return.
ParseNoMarker ==
    /\ ppc = "lines"
    /\ line_i > Len(stdout)
    /\ ppc' = "returned"
    /\ UNCHANGED <<stdout, line_i, pair_i, profiling_data>>
    /\ UNCHANGED <<genCore, data, analysis, saved, printed>>
    /\ UNCHANGED harness

\* _parse_kotlin_metrics(stdout) for any of the outputs.
InitParse ==
    /\ HarnessAtRest
    /\ GenCoreIdle
    /\ DataIdle
    /\ AnalysisIdle
    /\ saved = <<>>
    /\ printed = <<>>
    /\ stdout \in Stdouts
    /\ ppc = "lines"
    /\ line_i = 1
    /\ pair_i = 0
    /\ profiling_data = Defaults

NextParse ==
    \/ ParseSkipLine
    \/ ParseEnterLine
    \/ ParsePair
    \/ ParseBreak
    \/ ParseNoMarker

SpecParse == InitParse /\ [][NextParse]_vars

\* ---------------------------------------------------- analyze_benchmarks
\* The mean_metrics of a persisted result, as far as the reports read them.
\* Memory and GC time are 0 when the engine printed no metrics line.
MeanMetrics ==
    [obligations_count : {1, 2}, throughput_ops_per_sec : {1, 2}, duration_ms : {1},
     memory_used_mb : {0, 5}, gc_time_ms : {0, 3}]

\* Lines 31-38: the results of a directory, sorted by obligations_count.
ResultLists ==
    { rs \in SeqsUpTo(MeanMetrics, MaxResults) :
        /\ rs # <<>>
        /\ \A i, j \in DOMAIN rs :
              i < j => rs[i].obligations_count <= rs[j].obligations_count }

\* The divisors generate_performance_report divides by: lines 62-64 and 71 when
\* there are several results, lines 77 and 98-99 for each result (line 84 divides
\* by the duration only if it is positive).
ReportDivisors(rs) ==
    (IF Len(rs) > 1
     THEN {rs[1].obligations_count, rs[1].throughput_ops_per_sec,
           rs[1].memory_used_mb, rs[Len(rs)].obligations_count}
     ELSE {})
    \cup { rs[i].obligations_count : i \in DOMAIN rs }

\* The divisors compare_benchmarks divides by, lines 187-190.
CompareDivisors(m1) ==
    {m1.throughput_ops_per_sec, m1.duration_ms, m1.memory_used_mb, m1.gc_time_ms}

\* Lines 40-101: the report is built, or a division by zero raises.
GeneratePerformanceReport ==
    /\ apc = "start"
    /\ IF 0 \in ReportDivisors(results)
       THEN /\ aexc' = "ZeroDivisionError"
            /\ apc' = "raised"
       ELSE /\ apc' = "reported"
            /\ UNCHANGED aexc
    /\ UNCHANGED results
    /\ UNCHANGED <<genCore, data, parse, saved, printed>>
    /\ UNCHANGED harness

\* Lines 172-192: two result files are compared, the first being the base.
CompareBenchmarks ==
    /\ apc = "start"
    /\ Len(results) = 2
    /\ IF 0 \in CompareDivisors(results[1])
       THEN /\ aexc' = "ZeroDivisionError"
            /\ apc' = "raised"
       ELSE /\ apc' = "compared"
            /\ UNCHANGED aexc
    /\ UNCHANGED results
    /\ UNCHANGED <<genCore, data, parse, saved, printed>>
    /\ UNCHANGED harness

\* analyze_benchmarks.py over any persisted results.
InitAnalysis ==
    /\ HarnessAtRest
    /\ GenCoreIdle
    /\ DataIdle
    /\ ParseIdle
    /\ saved = <<>>
    /\ printed = <<>>
    /\ results \in ResultLists
    /\ apc = "start"
    /\ aexc = "none"

NextAnalysis ==
    \/ GeneratePerformanceReport
    \/ CompareBenchmarks

SpecAnalysis == InitAnalysis /\ [][NextAnalysis]_vars

\* ------------------------------------------------------------------ claims

\* C1: a read whose counts equal the expected triple returns that triple at once:
\* no further sleep, no further read, whatever the clock and the child do; and a
\* status artifact that satisfies the triple at the first read is read once.
C1_SatisfiedPollReturns ==
    /\ [][ (polls' = polls + 1 /\ Counts(status.lines) = expected)
             => (result' = expected /\ pc' = "finally" /\ sleeps' = sleeps
                 /\ now' = now /\ child' = child) ]_vars
    /\ []((seen # <<>> /\ seen[1] = expected) => (polls = 1 /\ result = expected))

\* C1 witness: the first read was satisfied before the timeout, engine still running.
C1_Witness ==
    /\ pc = "finally"
    /\ outcome = "satisfied"
    /\ polls = 1
    /\ expected # Zeros
    /\ child = "running"
    /\ now - start < timeout_sec

\* C3 (as stated): after a timeout the result is the count of the read after the
\* loop, at least every count polled before, and (0,0,0) only when the status
\* artifact does not exist.
C3_ZeroOnlyWhenAbsent ==
    (outcome = "timeout" /\ \A i \in DOMAIN seen : seen[i] # expected) =>
        /\ finalRead => result = Last(seen)
        /\ \A i \in DOMAIN seen : Leq3(seen[i], result)
        /\ result = Zeros => ~finalRead

\* C3 (amended): after a timeout the result is what the read after the loop
\* counted in the status artifact, at least every count polled before, and
\* (0,0,0) only when the artifact does not exist or holds no counted line.
C3_BestObserved ==
    /\ [][ (outcome = "none" /\ outcome' = "timeout")
             => /\ result' = IF status.exists THEN Counts(status.lines) ELSE Zeros
                /\ finalRead' = status.exists ]_vars
    /\ []((outcome = "timeout" /\ \A i \in DOMAIN seen : seen[i] # expected) =>
            /\ finalRead => result = Last(seen)
            /\ ~finalRead => (result = Zeros /\ seen = <<>>)
            /\ \A i \in DOMAIN seen : Leq3(seen[i], result))

\* C3 witness: a timeout whose result is more than an earlier poll saw.
C3_Witness ==
    /\ outcome = "timeout"
    /\ finalRead
    /\ Len(seen) >= 2
    /\ seen[1] # result
    /\ result # Zeros

\* C4: given an expected triple that is never satisfied, the number of reads is at
\* most ceil(timeout/interval) + 1, the loop is left at the first check at or after
\* the timeout, a timed-out call returns between timeout and timeout + interval +
\* grace after its start, and the call does return.
C4_TimeoutBounds ==
    /\ [](polls <= CeilDiv(timeout_sec, PollInterval) + 1)
    /\ [](pc \in {"loop", "sleep"} => now - start < timeout_sec + PollInterval)
    /\ [](outcome = "timeout" => now - start >= timeout_sec)
    /\ []((outcome = "timeout" /\ pc = "done")
             => now - start <= timeout_sec + PollInterval + Grace)
    /\ <>(pc = "done")

\* C4 witness: a call that timed out unsatisfied after polling, and has returned.
C4_Witness ==
    /\ pc = "done"
    /\ outcome = "timeout"
    /\ result # expected
    /\ polls = CeilDiv(timeout_sec, PollInterval) + 1
    /\ timeout_sec = MaxTimeout
    /\ sigkill


\* C2: whenever the child is force-killed, graceful termination was requested
\* before; and once the orchestrating call has returned or raised, the child it
\* spawned is no longer running.
C2_ChildTerminated ==
    /\ sigkill => sigterm
    /\ (pc \in {"done", "exited", "b_loop", "b_raised", "b_done"} /\ child # "none")
          => child = "exited"

\* C5: the orchestrating call never raises because the timeout passed; a timeout
\* ends it with a returned result.
C5_TimeoutNotFatal ==
    /\ exc # "RuntimeError"
    /\ outcome = "timeout" => exc = "none"

\* C6: an iteration whose status artifact shows the expected triple is completed by
\* the next statement of the harness, whether or not the engine has exited.
C6_CompletionByPolling ==
    [][ (pc = "b_communicate" /\ pc' # pc
         /\ status.exists /\ Counts(status.lines) = expected)
        => (pc' = "b_loop" /\ iter' = iter + 1) ]_vars

\* C7: when write_files begins, no engine spawned by the harness before is alive.
C7_PreviousChildExited ==
    pc = "wf_unlink_bank" => (~orphan /\ child # "running")

\* C8: while write_files runs, a feed that is there is either the whole previous
\* feed or the whole new one (never missing once written, never empty or partial),
\* and at the spawn the status artifact is empty and both feeds are complete.
C8_AtomicReplace ==
    /\ InWriteFiles =>
          /\ FeedView(bank) \in {"previous", "complete"} \cup
                (IF run = 1 THEN {"missing"} ELSE {})
          /\ FeedView(market) \in {"previous", "complete"} \cup
                (IF run = 1 THEN {"missing"} ELSE {})
    /\ pc \in {"spawn", "b_popen"} =>
          /\ status = File(<<>>)
          /\ bank = Feed(run, FeedLines)
          /\ market = Feed(run, FeedLines)

\* C9: the returned triple is (n_trades, n_unmatches, min(n_duplicates, events
\* available to duplicate)): its last component is the number of duplicate lines
\* that were appended to the feed.
C9_ExpectedMatchesGenerated ==
    gpc = "done" =>
        /\ gexpected[1] = n_trades
        /\ gexpected[2] = n_unmatches
        /\ gexpected[3] = Min(n_duplicates, n_trades)
        /\ gexpected[3] = Len(dup_indices)
        /\ Len(market_lines) = gexpected[1] + gexpected[2] + gexpected[3]

\* C10: once the stub engine has consumed the whole market feed, in whatever order
\* the shuffle left it, the counts of its status log are the returned triple.
C10_StubObservesExpected ==
    (gpc = "done" /\ consumed = Len(market_lines))
        => (status.exists /\ Counts(status.lines) = gexpected)

\* C11: the duplicate step of either generator never raises; it appends exactly
\* min(duplicateCount, events available to duplicate) lines to the feed, each
\* equal in every field to a line the feed held before the step, and leaves the
\* lines before them as they were.
C11_DuplicatesCapped ==
    /\ [](gexc # "ValueError")
    /\ [][ (gpc \in {"duplicates", "b_duplicates"} /\ gpc' # gpc) =>
             LET n == Len(market_lines)
                 k == IF n_duplicates <= n THEN n_duplicates ELSE n
             IN  /\ Len(market_lines') = n + k
                 /\ SubSeq(market_lines', 1, n) = market_lines
                 /\ \A j \in (n + 1)..(n + k) :
                       \E i \in 1..n : market_lines'[j] = market_lines[i] ]_vars

\* C11 witness: the benchmark generator was asked for more duplicates than it had
\* events; it copied them all, a primary and an additional event among them.
C11_Witness ==
    /\ gpc = "b_unmatches"
    /\ gexc = "none"
    /\ n_duplicates > Len(dup_indices)
    /\ Len(dup_indices) >= 2
    /\ \E j \in DOMAIN dup_indices : market_lines[dup_indices[j]][2] = 2

\* (isin, account, settle date) of a market line, and of a trade.
KeyOfLine(e) == <<e[4], e[5], e[6]>>
KeyOfTrade(t) == <<t.isin, t.account, t.settle_date>>

\* C12: the unmatched step of either generator appends exactly unmatchCount
\* lines; whatever was drawn, the (isin, account, settle date) of each differs
\* from that of every obligation, and its message id from that of every line
\* generated for an obligation; in the returned feed exactly unmatchCount lines
\* have no obligation with their (isin, account, settle date).
C12_UnmatchedAbsent ==
    /\ [][ (gpc \in {"unmatches", "b_unmatches"} /\ gpc' # gpc) =>
             LET n == Len(market_lines)
             IN  /\ Len(market_lines') = n + n_unmatches
                 /\ SubSeq(market_lines', 1, n) = market_lines
                 /\ \A j \in (n + 1)..(n + n_unmatches) :
                       /\ \A i \in DOMAIN trades :
                             /\ KeyOfLine(market_lines'[j]) # KeyOfTrade(trades[i])
                             /\ market_lines'[j][1] # MsgId(trades[i].obligation_id)
                       /\ \A i \in 1..n : market_lines'[j][1] # market_lines[i][1] ]_vars
    /\ [](gpc = "done" =>
            Cardinality({ j \in DOMAIN market_lines :
                            \A i \in DOMAIN trades :
                                KeyOfLine(market_lines[j]) # KeyOfTrade(trades[i]) })
                = n_unmatches)

\* C12 witness: generate_dataset returned a feed whose unmatched line has the isin
\* and the settle date of a trade; only the account tells them apart.
C12_Witness ==
    /\ gpc = "done"
    /\ caller = "main"
    /\ n_unmatches >= 1
    /\ \E j \in DOMAIN market_lines : \E i \in DOMAIN trades :
          /\ market_lines[j][1] = MsgId(<<"FAKE", 1>>)
          /\ market_lines[j][4] = trades[i].isin
          /\ market_lines[j][6] = trades[i].settle_date

\* C13: every generation call of a process returns the obligation and event lines
\* that the first call after random.seed returned for the same parameters: what
\* a call returns depends on the seed and its parameters alone.
C13_SameSeedSameDataset ==
    (gpc = "done" /\ calls >= 1) => <<bank_lines, market_lines>> = first

\* C14: once make_trades has returned, in either generator, there are exactly
\* n_trades obligations, no two with the same identifier, and the obligation feed
\* holds exactly one line per obligation (and no other line), shuffled or not.
C14_ObligationsDistinct ==
    gpc \notin {"make_trades", "b_trades"} =>
        /\ Len(trades) = n_trades
        /\ \A i, j \in DOMAIN trades :
              i # j => trades[i].obligation_id # trades[j].obligation_id
        /\ Len(bank_lines) = n_trades
        /\ \A i \in DOMAIN trades :
              Cardinality({ j \in DOMAIN bank_lines :
                              bank_lines[j] = as_bank_line(trades[i]) }) = 1
        /\ \A i \in DOMAIN trades :
              Cardinality({ j \in DOMAIN bank_lines :
                              bank_lines[j][1] = trades[i].obligation_id }) = 1

\* C14 witness: generate_dataset returned two obligations that differ in nothing
\* but their identifiers, the shuffle having exchanged their lines.
C14_Witness ==
    /\ gpc = "done"
    /\ caller = "main"
    /\ Len(trades) = 2
    /\ trades[1].isin = trades[2].isin
    /\ trades[1].account = trades[2].account
    /\ bank_lines[1] = as_bank_line(trades[2])

\* The largest member of a non-empty set of numbers.
Greatest(S) == CHOOSE x \in S : \A y \in S : y <= x

\* The positions in the pairs ps of the pairs with "=" and key k whose value the
\* conversion accepts.
Parsed(ps, k) ==
    { j \in DOMAIN ps :
        /\ ps[j].eq
        /\ ps[j].key = k
        /\ IF k = "peak_entities" THEN IntOk(ps[j].value) ELSE FloatOk(ps[j].value) }

\* C15: the result holds, for each of memory_mb, gc_time_ms, duration_ms (as
\* cpu_time_ms) and peak_entities, the typed value of the last pair of the first
\* marker line that has "=", that key and a parseable value, and zero when that
\* line has no such pair, whatever its other pairs are; later marker lines count
\* for nothing, and without a marker line the result is all zeros.
C15_MetricsParsed ==
    ppc = "returned" =>
        LET M == { i \in DOMAIN stdout : stdout[i].marker }
            ps == stdout[CHOOSE i \in M : \A j \in M : i <= j].pairs
            F(k) == IF Parsed(ps, k) = {} THEN 0
                    ELSE FloatOf(ps[Greatest(Parsed(ps, k))].value)
        IN  IF M = {} THEN profiling_data = Defaults
            ELSE /\ profiling_data.memory_mb = F("memory_mb")
                 /\ profiling_data.gc_time_ms = F("gc_time_ms")
                 /\ profiling_data.cpu_time_ms = F("duration_ms")
                 /\ profiling_data.peak_entities =
                       IF Parsed(ps, "peak_entities") = {} THEN 0 ELSE IntOf("42")

\* C15 witness: the first marker line, after a line of no interest, had an
\* unparseable memory_mb before a good peak_entities; the good pair was taken, the
\* bad one and the later marker line were not.
C15_Witness ==
    /\ ppc = "returned"
    /\ Len(stdout) = 3
    /\ ~stdout[1].marker
    /\ stdout[2].pairs = <<Pair("memory_mb", "abc"), Pair("peak_entities", "42")>>
    /\ stdout[3] = LaterLine
    /\ profiling_data = [Defaults EXCEPT !.peak_entities = 42]

\* C16: a report over persisted results of which some have memory_used_mb = 0 or
\* gc_time_ms = 0 is completed: neither generate_performance_report nor
\* compare_benchmarks raises.
C16_ZerosReported ==
    (\E i \in DOMAIN results :
        results[i].memory_used_mb = 0 \/ results[i].gc_time_ms = 0)
      => (apc # "raised" /\ aexc = "none")

\* C17: run_benchmark ends, for any config, with exactly warmup_iterations +
\* measurement_iterations cycles run, one metric per measurement iteration in
\* metrics, in the order they ran and none from a warmup, and the result saved
\* exactly once, with that list; before it ends nothing is saved.
C17_AllIterationsPersisted ==
    /\ pc \in {"b_done", "b_raised"} =>
          /\ iter = warmup_iterations + measurement_iterations
          /\ Len(metrics) = measurement_iterations
          /\ \A k \in DOMAIN metrics : metrics[k].iteration = warmup_iterations + k
          /\ saved = <<metrics>>
    /\ pc \notin {"b_done", "b_raised"} => saved = <<>>

Cycle == <<"PARTIAL_SETTLED", "SETTLED", "ACK">>

\* Before the duplicate step: the feed is one MATCHED line with seq 1 per
\* obligation, then extra additional lines, line i of them (from 0) with status
\* Cycle[i mod 3] and the next sequence number of its obligation's message id, so
\* that the sequence numbers under every message id are 1..k.
PrimaryThenAdditional(extra) ==
    /\ Len(market_lines) = n_trades + extra
    /\ \A i \in 1..n_trades :
          market_lines[i] =
              as_market_line(trades[i], MsgId(trades[i].obligation_id), 1)
    /\ \A i \in 0..(extra - 1) :
          LET e == market_lines[n_trades + 1 + i]
          IN  /\ e[3] = Cycle[(i % 3) + 1]
              /\ \E t \in DOMAIN trades :
                    /\ e[1] = MsgId(trades[t].obligation_id)
                    /\ KeyOfLine(e) = KeyOfTrade(trades[t])
              /\ e[2] = 1 + Cardinality({ j \in 1..(n_trades + i) :
                                            market_lines[j][1] = e[1] })
    /\ \A t \in DOMAIN trades :
          LET mine == { j \in DOMAIN market_lines :
                          market_lines[j][1] = MsgId(trades[t].obligation_id) }
          IN  /\ { market_lines[j][2] : j \in mine } = 1..Cardinality(mine)
              /\ msg_seq[t] = Cardinality(mine)

\* C19: _generate_dataset does not fail, and before duplication the feed is the
\* primary events followed by exactly eventCount - obligationCount additional
\* events, eventCount events in total.
C19_EventCountReached ==
    /\ gexc # "IndexError"
    /\ gpc = "b_duplicates" =>
          /\ Len(market_lines) = num_status_events
          /\ PrimaryThenAdditional(num_status_events - n_trades)

\* How often x occurs in the sequence s; s and t hold the same lines, each as often.
Occurrences(s, x) == Cardinality({ j \in DOMAIN s : s[j] = x })
SameLines(s, t) ==
    /\ Len(s) = Len(t)
    /\ \A j \in DOMAIN s : Occurrences(s, s[j]) = Occurrences(t, s[j])

\* The positions of the feed that hold the (message id, sequence number) of line j.
SameKey(j) ==
    { i \in DOMAIN market_lines :
        /\ market_lines[i][1] = market_lines[j][1]
        /\ market_lines[i][2] = market_lines[j][2] }

\* C20: in either generator every step before the shuffle only appends lines to
\* the feed and every exchange of the shuffle leaves the same lines, each as often
\* as before; in the returned feed no (message id, sequence number) occurs more
\* than twice, as many of them occur twice as duplicates were appended, and the
\* feed has as many lines as primary, additional, duplicate and unmatched events
\* were generated.
C20_FeedPermutation ==
    /\ [][ IF gpc \in {"shuffle_bank", "shuffle_market", "b_shuffle"}
           THEN SameLines(market_lines', market_lines)
                  /\ SameLines(bank_lines', bank_lines)
           ELSE SubSeq(market_lines', 1, Len(market_lines)) = market_lines ]_vars
    /\ [](gpc = "done" =>
            /\ \A j \in DOMAIN market_lines : Cardinality(SameKey(j)) <= 2
            /\ Cardinality({ SameKey(j) : j \in DOMAIN market_lines }
                             \ { {j} : j \in DOMAIN market_lines })
                  = Len(dup_indices)
            /\ Len(market_lines) = Len(trades) + add_i + Len(dup_indices) + n_unmatches)

\* C20 witness: the benchmark generator returned a feed with an additional event,
\* a duplicate and an unmatched event, the unmatched one, generated last, first.
C20_Witness ==
    /\ gpc = "done"
    /\ caller = "bench"
    /\ add_i >= 1
    /\ Len(dup_indices) >= 1
    /\ n_unmatches >= 1
    /\ market_lines[1][4] \in BenchFakeIsinDraws

====
